---- MODULE Spec2Model ----
(***************************************************************************)
(* Model of the Idealista contacts scraper (src/main.py).                  *)
(*                                                                         *)
(* Texts are sequences of one-character strings, so that the regular       *)
(* expressions of the source are computed position by position.            *)
(***************************************************************************)
EXTENDS Integers, Sequences, FiniteSets, TLC

\* ------------------------------------------------------------------------
\* Character classes used by the regular expressions of the source
\* ------------------------------------------------------------------------

\* \d
Digits == {"0", "1", "2", "3", "4", "5", "6", "7", "8", "9"}

\* \s
Whitespace == {" ", "\t", "\n"}

\* [6789]
MobileFirst == {"6", "7", "8", "9"}

\* 9 (first digit of the landline pattern)
LandlineFirst == {"9"}

\* [\s\-\.] removed by re.sub in extract_phone_from_text
Separators == Whitespace \cup {"-", "."}

LowerLetters ==
  {"a", "b", "c", "d", "e", "f", "g", "h", "i", "j", "k", "l", "m",
   "n", "o", "p", "q", "r", "s", "t", "u", "v", "w", "x", "y", "z"}

UpperLetters ==
  {"A", "B", "C", "D", "E", "F", "G", "H", "I", "J", "K", "L", "M",
   "N", "O", "P", "Q", "R", "S", "T", "U", "V", "W", "X", "Y", "Z"}

\* [a-zA-Z]
Letters == LowerLetters \cup UpperLetters

\* [a-zA-Z0-9._%+-]
EmailLocalChars == Letters \cup Digits \cup {".", "_", "%", "+", "-"}

\* [a-zA-Z0-9.-]
EmailDomainChars == Letters \cup Digits \cup {".", "-"}

\* ------------------------------------------------------------------------
\* String helpers
\* ------------------------------------------------------------------------

\* str.startswith at a position: lit occurs in text at index i
StartsWithAt(text, i, lit) ==
  /\ i >= 1
  /\ i + Len(lit) - 1 <= Len(text)
  /\ SubSeq(text, i, i + Len(lit) - 1) = lit

\* str.startswith
StartsWith(text, lit) == StartsWithAt(text, 1, lit)

\* position after a greedy run of characters of class cls starting at i
SkipClass(text, i, cls) ==
  CHOOSE j \in i..(Len(text) + 1) :
    /\ \A k \in i..(j - 1) : text[k] \in cls
    /\ (j = Len(text) + 1 \/ text[j] \notin cls)

\* membership of a value in a sequence (Python "x in list")
InSeq(x, s) == \E k \in 1..Len(s) : s[k] = x

\* the elements of a sequence
Range(s) == {s[k] : k \in 1..Len(s)}

\* order-preserving removal of duplicates
RECURSIVE OrderedDedup(_)
OrderedDedup(s) ==
  IF s = <<>> THEN <<>>
  ELSE LET front == OrderedDedup(SubSeq(s, 1, Len(s) - 1))
           last  == s[Len(s)]
       IN IF InSeq(last, front) THEN front ELSE Append(front, last)

\* concatenation of a sequence of sequences
RECURSIVE Flatten(_)
Flatten(ss) ==
  IF ss = <<>> THEN <<>> ELSE Head(ss) \o Flatten(Tail(ss))

\* all orderings of a finite set, as sequences without repetition:
\* list(set(xs)) yields one of them, which one depends on string hashing
Orderings(S) ==
  {f \in [1..Cardinality(S) -> S] : \A a, b \in 1..Cardinality(S) : a # b => f[a] # f[b]}

\* ------------------------------------------------------------------------
\* extract_phone_from_text
\* ------------------------------------------------------------------------

\* \s*\d{2} : position after it, 0 when it does not match at p (p = 0: no match so far)
WsTwoDigits(text, p) ==
  IF p = 0 THEN 0
  ELSE LET q == SkipClass(text, p, Whitespace)
       IN IF q + 1 <= Len(text) /\ text[q] \in Digits /\ text[q + 1] \in Digits
          THEN q + 2 ELSE 0

\* \s*[first]\d{2}\s*\d{2}\s*\d{2}\s*\d{2} : position after the match, 0 when none
NumberBodyAt(text, p, first) ==
  LET q == SkipClass(text, p, Whitespace)
      three == IF /\ q + 2 <= Len(text)
                  /\ text[q] \in first
                  /\ text[q + 1] \in Digits
                  /\ text[q + 2] \in Digits
               THEN q + 3 ELSE 0
  IN WsTwoDigits(text, WsTwoDigits(text, WsTwoDigits(text, three)))

Plus34 == <<"+", "3", "4">>
Trunk0034 == <<"0", "0", "3", "4">>

\* (\+34|0034)?\s*[first]\d{2}\s*\d{2}\s*\d{2}\s*\d{2} tried at position i:
\* end is the position after the match (0: no match), group is capture group 1
PrefixedMatchAt(text, i, first) ==
  LET viaPlus  == IF StartsWithAt(text, i, Plus34)
                  THEN NumberBodyAt(text, i + 3, first) ELSE 0
      viaTrunk == IF StartsWithAt(text, i, Trunk0034)
                  THEN NumberBodyAt(text, i + 4, first) ELSE 0
      bare     == NumberBodyAt(text, i, first)
  IN IF viaPlus # 0 THEN [end |-> viaPlus, group |-> Plus34]
     ELSE IF viaTrunk # 0 THEN [end |-> viaTrunk, group |-> Trunk0034]
     ELSE [end |-> bare, group |-> <<>>]

\* re.findall of a pattern with ONE capture group: the list of the group's
\* contents ('' when the group did not take part), not of the whole matches
RECURSIVE FindAllPrefixed(_, _, _)
FindAllPrefixed(text, i, first) ==
  IF i > Len(text) THEN <<>>
  ELSE LET m == PrefixedMatchAt(text, i, first)
       IN IF m.end # 0
          THEN <<m.group>> \o FindAllPrefixed(text, m.end, first)
          ELSE FindAllPrefixed(text, i + 1, first)

\* [6789]\d{8} tried at position i
BareMatchAt(text, i) ==
  /\ i + 8 <= Len(text)
  /\ text[i] \in MobileFirst
  /\ \A k \in (i + 1)..(i + 8) : text[k] \in Digits

\* re.findall of the pattern without groups: the whole matches
RECURSIVE FindAllBare(_, _)
FindAllBare(text, i) ==
  IF i > Len(text) THEN <<>>
  ELSE IF BareMatchAt(text, i)
       THEN <<SubSeq(text, i, i + 8)>> \o FindAllBare(text, i + 9)
       ELSE FindAllBare(text, i + 1)

\* the three findall results, extended onto one list in pattern order
PhoneMatches(text) ==
  FindAllPrefixed(text, 1, MobileFirst)
    \o FindAllPrefixed(text, 1, LandlineFirst)
    \o FindAllBare(text, 1)

IsNotSeparator(c) == c \notin Separators

\* the body of the cleaning loop up to the prefix normalisation
NormalizePhone(phone) ==
  LET stripped == SelectSeq(phone, IsNotSeparator)
  IN IF StartsWith(stripped, <<"+">>) THEN stripped
     ELSE IF StartsWith(stripped, Trunk0034)
          THEN Plus34 \o SubSeq(stripped, 5, Len(stripped))
     ELSE IF StartsWith(stripped, <<"3", "4">>) THEN <<"+">> \o stripped
     ELSE Plus34 \o stripped

MinPhoneLen == 11

\* the cleaning loop: normalise, drop repeats and short candidates
RECURSIVE CleanPhones(_)
CleanPhones(phones) ==
  IF phones = <<>> THEN <<>>
  ELSE LET cleaned == CleanPhones(SubSeq(phones, 1, Len(phones) - 1))
           phone   == NormalizePhone(phones[Len(phones)])
       IN IF ~InSeq(phone, cleaned) /\ Len(phone) >= MinPhoneLen
          THEN Append(cleaned, phone) ELSE cleaned

extract_phone_from_text(text) ==
  IF text = <<>> THEN <<>> ELSE CleanPhones(PhoneMatches(text))

\* ------------------------------------------------------------------------
\* extract_email_from_text
\* ------------------------------------------------------------------------

\* [a-zA-Z0-9._%+-]+@[a-zA-Z0-9.-]+\.[a-zA-Z]{2,} tried at position i:
\* position after the match, 0 when none.  The local part is a greedy run that
\* must be followed by "@"; the domain run is given back character by
\* character until "." and two letters follow; the final letters are greedy.
EmailMatchAt(text, i) ==
  LET at == SkipClass(text, i, EmailLocalChars)
  IN IF at = i \/ at > Len(text) \/ text[at] # "@" THEN 0
     ELSE LET domEnd == SkipClass(text, at + 1, EmailDomainChars)
              dots == {d \in (at + 2)..(domEnd - 1) :
                         /\ text[d] = "."
                         /\ d + 2 <= Len(text)
                         /\ text[d + 1] \in Letters
                         /\ text[d + 2] \in Letters}
          IN IF dots = {} THEN 0
             ELSE LET d == CHOOSE x \in dots : \A y \in dots : y <= x
                  IN SkipClass(text, d + 1, Letters)

RECURSIVE FindAllEmail(_, _)
FindAllEmail(text, i) ==
  IF i > Len(text) THEN <<>>
  ELSE LET e == EmailMatchAt(text, i)
       IN IF e # 0
          THEN <<SubSeq(text, i, e - 1)>> \o FindAllEmail(text, e)
          ELSE FindAllEmail(text, i + 1)

\* extract_email_from_text returns list(set(emails)); this is the set, and the
\* list is one of Orderings(set)
extract_email_set(text) ==
  IF text = <<>> THEN {} ELSE Range(FindAllEmail(text, 1))

\* ------------------------------------------------------------------------
\* Text helpers of the Listing Fetcher and the API layer
\* ------------------------------------------------------------------------

LowerAlphabet ==
  <<"a", "b", "c", "d", "e", "f", "g", "h", "i", "j", "k", "l", "m",
    "n", "o", "p", "q", "r", "s", "t", "u", "v", "w", "x", "y", "z">>

UpperAlphabet ==
  <<"A", "B", "C", "D", "E", "F", "G", "H", "I", "J", "K", "L", "M",
    "N", "O", "P", "Q", "R", "S", "T", "U", "V", "W", "X", "Y", "Z">>

LowerChar(c) ==
  IF c \in UpperLetters
  THEN LowerAlphabet[CHOOSE k \in 1..26 : UpperAlphabet[k] = c] ELSE c

UpperChar(c) ==
  IF c \in LowerLetters
  THEN UpperAlphabet[CHOOSE k \in 1..26 : LowerAlphabet[k] = c] ELSE c

\* str.lower
Lower(text) == [k \in 1..Len(text) |-> LowerChar(text[k])]

\* str.capitalize
Capitalize(text) ==
  [k \in 1..Len(text) |-> IF k = 1 THEN UpperChar(text[k]) ELSE LowerChar(text[k])]

\* get_text(strip=True) of an element holding one text node
Strip(text) ==
  IF \A k \in 1..Len(text) : text[k] \in Whitespace THEN <<>>
  ELSE LET a == CHOOSE i \in 1..Len(text) :
                  text[i] \notin Whitespace /\ \A k \in 1..(i - 1) : text[k] \in Whitespace
           b == CHOOSE j \in 1..Len(text) :
                  text[j] \notin Whitespace /\ \A k \in (j + 1)..Len(text) : text[k] \in Whitespace
       IN SubSeq(text, a, b)

\* re.search of a literal: it occurs somewhere in text
Contains(text, lit) == \E i \in 1..Len(text) : StartsWithAt(text, i, lit)

Agencia == <<"a", "g", "e", "n", "c", "i", "a">>
Inmobiliaria == <<"i", "n", "m", "o", "b", "i", "l", "i", "a", "r", "i", "a">>

\* variant of IsAgencyText: the search without re.I
IsAgencyTextCaseSensitive(extra_text) ==
  Contains(extra_text, Agencia) \/ Contains(extra_text, Inmobiliaria)

\* re.search(r"agencia|inmobiliaria", extra_text, re.I)
IsAgencyText(extra_text) ==
  \/ Contains(Lower(extra_text), Agencia)
  \/ Contains(Lower(extra_text), Inmobiliaria)

NoValue == <<"None">>

\* article.select_one(".item-extra-info, .item-subtitle"): the first matching
\* element in document order, NoValue when there is none
select_one_extra(article) ==
  IF article.extras = <<>> THEN NoValue ELSE <<"Tag", Head(article.extras)>>

\* lines 154-158: the article is skipped as agency-sourced
IsAgencySkipped(article) ==
  LET extra_info == select_one_extra(article)
  IN /\ extra_info # NoValue
     /\ IsAgencyText(Strip(extra_info[2]))

SiteRoot ==
  <<"h", "t", "t", "p", "s", ":", "/", "/", "w", "w", "w", ".", "i", "d", "e",
    "a", "l", "i", "s", "t", "a", ".", "c", "o", "m">>

Http == <<"h", "t", "t", "p">>

\* urllib.parse.urljoin(SiteRoot, url_rel) for a reference that is a path
\* (absolute or relative) without scheme, authority, query or fragment
urljoin(base, url_rel) ==
  IF StartsWith(url_rel, <<"/">>) THEN base \o url_rel ELSE base \o <<"/">> \o url_rel

\* line 164: title_el["href"] if title_el and title_el.has_attr("href") else None
url_rel_of(article) ==
  IF article.has_link /\ article.has_href THEN article.href ELSE NoValue

\* lines 165-168; the empty href and the missing one both stay falsy
url_abs_of(article) ==
  LET url_rel == url_rel_of(article)
  IN IF url_rel # NoValue /\ url_rel # <<>> /\ ~StartsWith(url_rel, Http)
     THEN urljoin(SiteRoot, url_rel) ELSE url_rel

\* variant of HasNoUrl: only the missing href is skipped, not the empty one
HasNoUrlOnlyMissing(article) == url_abs_of(article) = NoValue

\* line 170: if not url_abs
HasNoUrl(article) == url_abs_of(article) \in {NoValue, <<>>}

InmueblePath == <<"/", "i", "n", "m", "u", "e", "b", "l", "e", "/">>

\* re.search(r"/inmueble/(\d+)/", url): the places where it matches
IdMatchPositions(url) ==
  {i \in 1..Len(url) :
     /\ StartsWithAt(url, i, InmueblePath)
     /\ LET d == i + Len(InmueblePath)
            e == SkipClass(url, d, Digits)
        IN e > d /\ e <= Len(url) /\ url[e] = "/"}

\* lines 174-175: group 1 of the leftmost match, NoValue when there is none
prop_id_of(url) ==
  LET ps == IdMatchPositions(url)
  IN IF ps = {} THEN NoValue
     ELSE LET i == CHOOSE x \in ps : \A y \in ps : x <= y
              d == i + Len(InmueblePath)
          IN SubSeq(url, d, SkipClass(url, d, Digits) - 1)

build_search_url(base_url, page) ==
  IF page <= 1 THEN base_url
  ELSE base_url \o "pagina-" \o ToString(page) \o ".htm"

\* ------------------------------------------------------------------------
\* Detail Fetcher: scrape_property_detail on a page that was fetched
\* ------------------------------------------------------------------------

\* soup.get_text(): the text of all segments of the page, in document order
page_text_of(detail) ==
  Flatten([k \in 1..Len(detail.segments) |-> detail.segments[k].text])

IsContactSegment(seg) == seg.contact

\* soup.select('.contact-info, .phone, .email, [class*="contact"], ...')
contact_elements(detail) == SelectSeq(detail.segments, IsContactSegment)

\* contacts['phones'] before line 122: whole page first, then each element
phones_encountered(detail) ==
  extract_phone_from_text(page_text_of(detail))
    \o Flatten([k \in 1..Len(contact_elements(detail)) |->
                  extract_phone_from_text(contact_elements(detail)[k].text)])

\* the emails of lines 112 and 119, as a set
emails_encountered(detail) ==
  extract_email_set(page_text_of(detail))
    \cup UNION {extract_email_set(contact_elements(detail)[k].text) :
                  k \in 1..Len(contact_elements(detail))}

\* lines 122-125: list(set(...)) of both fields. The iteration order of a set
\* of strings is decided by their (per-process randomised) hashes, so every
\* ordering is a possible result.
DetailResults(detail) ==
  {[phones |-> ph, emails |-> em] :
     ph \in Orderings(Range(phones_encountered(detail))),
     em \in Orderings(emails_encountered(detail))}

\* line 129: the bundle returned from the except branch
EmptyContacts == [phones |-> <<>>, emails |-> <<>>]

\* variant of HasContacts: every bundle is taken
HasContactsAlways(contacts) == TRUE

\* line 182: contacts['phones'] or contacts['emails']
HasContacts(contacts) == contacts.phones # <<>> \/ contacts.emails # <<>>

\* variant of LimitReached: the comparison is strict
LimitReachedOffByOne(props, max) == Len(props) > max

\* line 149: len(properties) >= max_properties
LimitReached(props, max) == Len(props) >= max

\* ------------------------------------------------------------------------
\* API layer helpers
\* ------------------------------------------------------------------------

Madrid == <<"m", "a", "d", "r", "i", "d">>

\* CIUDADES_ESPANA as built at import time
InitialCities ==
  (Madrid :> "https://www.idealista.com/venta-viviendas/madrid-madrid/con-particulares/")
  @@ (<<"b", "a", "r", "c", "e", "l", "o", "n", "a">> :>
        "https://www.idealista.com/venta-viviendas/barcelona-barcelona/con-particulares/")
  @@ (<<"v", "a", "l", "l", "a", "d", "o", "l", "i", "d">> :>
        "https://www.idealista.com/venta-viviendas/valladolid-valladolid/con-particulares/")
  @@ (<<"v", "a", "l", "e", "n", "c", "i", "a">> :>
        "https://www.idealista.com/venta-viviendas/valencia-valencia/con-particulares/")
  @@ (<<"s", "e", "v", "i", "l", "l", "a">> :>
        "https://www.idealista.com/venta-viviendas/sevilla-sevilla/con-particulares/")
  @@ (<<"z", "a", "r", "a", "g", "o", "z", "a">> :>
        "https://www.idealista.com/venta-viviendas/zaragoza-zaragoza/con-particulares/")
  @@ (<<"m", "a", "l", "a", "g", "a">> :>
        "https://www.idealista.com/venta-viviendas/malaga-malaga/con-particulares/")
  @@ (<<"m", "u", "r", "c", "i", "a">> :>
        "https://www.idealista.com/venta-viviendas/murcia-murcia/con-particulares/")
  @@ (<<"b", "i", "l", "b", "a", "o">> :>
        "https://www.idealista.com/venta-viviendas/bilbao/con-particulares/")
  @@ (<<"a", "l", "i", "c", "a", "n", "t", "e">> :>
        "https://www.idealista.com/venta-viviendas/alicante-alicante/con-particulares/")

\* variant of CityLookup: no default for a city that is not in the table
CityLookupStrict(table, city) ==
  IF city \in DOMAIN table THEN table[city] ELSE ""

\* line 212: CIUDADES_ESPANA.get(city, CIUDADES_ESPANA['madrid'])
CityLookup(table, city) ==
  IF city \in DOMAIN table THEN table[city] ELSE table[Madrid]

DefaultPage == 1
DefaultLimit == 10

\* a query parameter: absent, or present with a text that int() accepts or not
AbsentArg == [given |-> FALSE, isint |-> FALSE, val |-> 0]
NonIntArg == [given |-> TRUE, isint |-> FALSE, val |-> 0]
IntArg(n) == [given |-> TRUE, isint |-> TRUE, val |-> n]

\* int(request.args.get(name, default)) raises ValueError
IntFails(arg) == arg.given /\ ~arg.isint

\* int(request.args.get(name, default))
IntOf(arg, default) == IF arg.given THEN arg.val ELSE default

\* lines 221-228
SuccessEnvelope(city_name, pg, data, now) ==
  [success |-> TRUE, status |-> 200, timestamp |-> now, location |-> city_name,
   page |-> pg, count |-> Len(data), data |-> data, error |-> ""]

\* lines 232-236: no location, page, count or data in the error envelope
ErrorEnvelope(err, now) ==
  [success |-> FALSE, status |-> 500, timestamp |-> now, location |-> <<>>,
   page |-> 0, count |-> 0, data |-> <<>>, error |-> err]

NoResponse ==
  [success |-> FALSE, status |-> 0, timestamp |-> 0, location |-> <<>>,
   page |-> 0, count |-> 0, data |-> <<>>, error |-> ""]

\* ------------------------------------------------------------------------
\* Inputs: requests, search-result pages, detail pages
\* ------------------------------------------------------------------------

MaxArticles == 2

HrefRelative == <<"/", "i", "n", "m", "u", "e", "b", "l", "e", "/", "1", "0", "1", "/">>
HrefAbsolute ==
  <<"h", "t", "t", "p", "s", ":", "/", "/", "w", "w", "w", ".", "i", "d", "e", "a", "l", "i", "s", "t", "a", ".", "c", "o", "m", "/", "i", "n", "m", "u", "e", "b", "l", "e", "/", "2", "0", "2", "/">>
HrefNoId == <<"/", "o", "b", "r", "a", "-", "n", "u", "e", "v", "a", "/", "7", "/">>

TextInmobiliaria == <<"I", "n", "m", "o", "b", "i", "l", "i", "a", "r", "i", "a", " ", "X", "Y", "Z">>
TextAgenciaPadded == <<" ", "A", "G", "E", "N", "C", "I", "A", " ", "S", "O", "L", " ">>
TextParticular == <<"P", "a", "r", "t", "i", "c", "u", "l", "a", "r">>
TextGaraje == <<"G", "a", "r", "a", "j", "e", " ", "i", "n", "c", "l", "u", "i", "d", "o">>

\* one <article class="item"> of the search page: the texts of its elements
\* matching ".item-extra-info, .item-subtitle" in document order, its
\* a.item-link (present or not, with an href or not) and the three text fields
Article(extras, has_link, has_href, href, titulo) ==
  [extras |-> extras, has_link |-> has_link, has_href |-> has_href, href |-> href,
   titulo |-> titulo, precio |-> "250.000", ubicacion |-> "Centro"]

ArticleKinds ==
  { Article(<<>>, TRUE, TRUE, HrefRelative, "Piso"),
    Article(<<TextInmobiliaria>>, TRUE, TRUE, HrefRelative, "Piso de agencia"),
    Article(<<TextAgenciaPadded>>, TRUE, TRUE, HrefAbsolute, "Atico de agencia"),
    Article(<<TextParticular>>, TRUE, TRUE, HrefAbsolute, "Atico"),
    Article(<<TextGaraje, TextInmobiliaria>>, TRUE, TRUE, HrefNoId, "Obra nueva"),
    Article(<<>>, FALSE, FALSE, <<>>, "Sin enlace"),
    Article(<<>>, TRUE, FALSE, <<>>, "Sin href"),
    Article(<<>>, TRUE, TRUE, <<>>, "Href vacio") }

\* soup.find_all("article", class_="item") of a fetched search page
SearchPages == UNION {[1..n -> ArticleKinds] : n \in 0..MaxArticles}

Segment(text, contact) == [text |-> text, contact |-> contact]

\* detail pages: text segments in document order, each inside an element
\* matched by the contact selector or not
DetailPages ==
  { [segments |-> <<Segment(<<"S", "i", "n", " ", "d", "a", "t", "o", "s">>, FALSE)>>],
    [segments |-> <<Segment(<<"T", "e", "l", " ", "6", "9", "8", "7", "6", "5", "4", "3", "2", " ">>, FALSE),
                    Segment(<<"6", "1", "2", "3", "4", "5", "6", "7", "8">>, TRUE)>>],
    [segments |-> <<Segment(<<"i", "n", "f", "o", "@", "c", "a", "s", "a", ".", "c", "o", "m">>, TRUE)>>],
    [segments |-> <<Segment(<<"6", "1", "2", " ", "3", "4", " ", "5", "6", " ", "7", "8">>, FALSE)>>] }

NoDetail == [segments |-> <<>>]

RequestCities ==
  { <<"m", "a", "d", "r", "i", "d">>,
    <<"B", "I", "L", "B", "A", "O">>,
    <<"A", "t", "l", "a", "n", "t", "i", "s">> }

PageArgs == {AbsentArg, NonIntArg, IntArg(2)}

LimitArgs == {AbsentArg, NonIntArg, IntArg(-1), IntArg(0), IntArg(1), IntArg(2)}

Requests == [city : RequestCities, page_arg : PageArgs, limit_arg : LimitArgs]

NoRequest == [city |-> <<>>, page_arg |-> AbsentArg, limit_arg |-> AbsentArg]

SleepSeconds == 2

\* ------------------------------------------------------------------------
\* State
\* ------------------------------------------------------------------------

VARIABLES
  CIUDADES_ESPANA,  \* the city table (a module-level dict)
  pc,               \* position of the request being served
  request,          \* the request as received: city and query parameters
  city,             \* get_contacts: city after lower()
  base_url,         \* get_contacts: looked-up base URL
  page,             \* get_contacts: parsed page
  max_properties,   \* get_contacts: parsed limit
  search_log,       \* search pages requested from the site: URL and outcome
  articles,         \* scrape_idealista_contacts: the articles of the page
  idx,              \* scrape_idealista_contacts: position of the for loop
  url_abs,          \* scrape_idealista_contacts: URL of the current article
  prop_id,          \* scrape_idealista_contacts: id of the current article
  contacts,         \* scrape_idealista_contacts: last bundle returned
  properties,       \* scrape_idealista_contacts: the result list
  accepted,         \* for each record of properties, the position of its article
  detail_log,       \* detail requests made: article position, URL, outcome
  events,           \* detail requests, sleeps and skips, in order
  clock,            \* seconds slept so far
  response,         \* the HTTP response of get_contacts
  ex_pc,            \* extractor run: "off", "input" or "done"
  ex_input,         \* extractor run: how the text was written
  ex_phones         \* extractor run: result of extract_phone_from_text

exVars == <<ex_pc, ex_input, ex_phones>>

vars == <<CIUDADES_ESPANA, pc, request, city, base_url, page, max_properties,
          search_log, articles, idx, url_abs, prop_id, contacts, properties,
          accepted, detail_log, events, clock, response, ex_pc, ex_input, ex_phones>>

NoInput == [lead |-> <<>>, digits |-> <<>>, sep |-> <<>>, trail |-> <<>>]

ApiInit ==
  /\ CIUDADES_ESPANA = InitialCities
  /\ request = NoRequest
  /\ city = <<>>
  /\ base_url = ""
  /\ page = 0
  /\ max_properties = 0
  /\ search_log = <<>>
  /\ articles = <<>>
  /\ idx = 0
  /\ url_abs = NoValue
  /\ prop_id = NoValue
  /\ contacts = EmptyContacts
  /\ properties = <<>>
  /\ accepted = <<>>
  /\ detail_log = <<>>
  /\ events = <<>>
  /\ clock = 0
  /\ response = NoResponse

Init ==
  /\ ApiInit
  /\ pc = "idle"
  /\ ex_pc = "off"
  /\ ex_input = NoInput
  /\ ex_phones = <<>>

\* ------------------------------------------------------------------------
\* get_contacts
\* ------------------------------------------------------------------------

\* lines 209-219 up to the call of scrape_idealista_contacts; a parameter that
\* int() rejects raises inside the try and ends in the error envelope
GetContacts(req) ==
  /\ pc = "idle"
  /\ request' = req
  /\ city' = Lower(req.city)
  /\ base_url' = CityLookup(CIUDADES_ESPANA, Lower(req.city))
  /\ IF IntFails(req.page_arg)
     THEN /\ response' = ErrorEnvelope("ValueError", clock)
          /\ pc' = "done"
          /\ UNCHANGED <<page, max_properties>>
     ELSE IF IntFails(req.limit_arg)
     THEN /\ page' = IntOf(req.page_arg, DefaultPage)
          /\ response' = ErrorEnvelope("ValueError", clock)
          /\ pc' = "done"
          /\ UNCHANGED max_properties
     ELSE /\ page' = IntOf(req.page_arg, DefaultPage)
          /\ max_properties' = IntOf(req.limit_arg, DefaultLimit)
          /\ pc' = "search"
          /\ UNCHANGED response
  /\ UNCHANGED <<CIUDADES_ESPANA, search_log, articles, idx, url_abs, prop_id,
                 contacts, properties, accepted, detail_log, events, clock>>
  /\ UNCHANGED exVars

\* ------------------------------------------------------------------------
\* scrape_idealista_contacts
\* ------------------------------------------------------------------------

\* lines 139-146: the search page is fetched and parsed
SearchOk(found) ==
  /\ pc = "search"
  /\ search_log' = Append(search_log, [url |-> build_search_url(base_url, page), ok |-> TRUE])
  /\ articles' = found
  /\ idx' = 1
  /\ properties' = <<>>
  /\ pc' = "loop"
  /\ UNCHANGED <<CIUDADES_ESPANA, request, city, base_url, page, max_properties,
                 url_abs, prop_id, contacts, accepted, detail_log, events, clock,
                 response>>
  /\ UNCHANGED exVars

\* variant of SearchFail: the failure is absorbed as a page without articles
SearchFailAbsorbed ==
  /\ pc = "search"
  /\ search_log' = Append(search_log, [url |-> build_search_url(base_url, page), ok |-> FALSE])
  /\ articles' = <<>>
  /\ idx' = 1
  /\ pc' = "loop"
  /\ UNCHANGED <<CIUDADES_ESPANA, request, city, base_url, page, max_properties,
                 url_abs, prop_id, contacts, properties, accepted, detail_log,
                 events, clock, response>>
  /\ UNCHANGED exVars

\* line 142 raises: nothing catches it before the except of get_contacts
SearchFail ==
  /\ pc = "search"
  /\ search_log' = Append(search_log, [url |-> build_search_url(base_url, page), ok |-> FALSE])
  /\ response' = ErrorEnvelope("URLError", clock)
  /\ pc' = "done"
  /\ UNCHANGED <<CIUDADES_ESPANA, request, city, base_url, page, max_properties,
                 articles, idx, url_abs, prop_id, contacts, properties, accepted,
                 detail_log, events, clock>>
  /\ UNCHANGED exVars

\* the for loop ends (no article left, or the break of line 150); lines
\* 197-198 return the list and lines 221-228 wrap it
LoopExit ==
  /\ pc = "loop"
  /\ idx > Len(articles) \/ LimitReached(properties, max_properties)
  /\ response' = SuccessEnvelope(Capitalize(city), page, properties, clock)
  /\ pc' = "done"
  /\ UNCHANGED <<CIUDADES_ESPANA, request, city, base_url, page, max_properties,
                 search_log, articles, idx, url_abs, prop_id, contacts, properties,
                 accepted, detail_log, events, clock>>
  /\ UNCHANGED exVars

\* lines 153-158: continue
AgencySkip ==
  /\ pc = "loop"
  /\ idx <= Len(articles)
  /\ ~LimitReached(properties, max_properties)
  /\ IsAgencySkipped(articles[idx])
  /\ events' = Append(events, <<"skip_agency", idx>>)
  /\ idx' = idx + 1
  /\ UNCHANGED <<CIUDADES_ESPANA, pc, request, city, base_url, page, max_properties,
                 search_log, articles, url_abs, prop_id, contacts, properties,
                 accepted, detail_log, clock, response>>
  /\ UNCHANGED exVars

\* lines 160-171: continue
NoUrlSkip ==
  /\ pc = "loop"
  /\ idx <= Len(articles)
  /\ ~LimitReached(properties, max_properties)
  /\ ~IsAgencySkipped(articles[idx])
  /\ HasNoUrl(articles[idx])
  /\ events' = Append(events, <<"skip_no_url", idx>>)
  /\ idx' = idx + 1
  /\ UNCHANGED <<CIUDADES_ESPANA, pc, request, city, base_url, page, max_properties,
                 search_log, articles, url_abs, prop_id, contacts, properties,
                 accepted, detail_log, clock, response>>
  /\ UNCHANGED exVars

\* lines 160-179: the article has a URL, the Detail Fetcher is called
StartDetail ==
  /\ pc = "loop"
  /\ idx <= Len(articles)
  /\ ~LimitReached(properties, max_properties)
  /\ ~IsAgencySkipped(articles[idx])
  /\ ~HasNoUrl(articles[idx])
  /\ url_abs' = url_abs_of(articles[idx])
  /\ prop_id' = prop_id_of(url_abs_of(articles[idx]))
  /\ events' = Append(events, <<"detail", idx>>)
  /\ pc' = "detail"
  /\ UNCHANGED <<CIUDADES_ESPANA, request, city, base_url, page, max_properties,
                 search_log, articles, idx, contacts, properties, accepted,
                 detail_log, clock, response>>
  /\ UNCHANGED exVars

\* lines 183-192
ListingRecord(article, url, id, bundle, now) ==
  [id |-> id, titulo |-> article.titulo, precio |-> article.precio,
   ubicacion |-> article.ubicacion, url |-> url, telefonos |-> bundle.phones,
   emails |-> bundle.emails, fecha_scraping |-> now]

\* variant of TakeContacts: the pause is taken only after an accepted listing
TakeContactsSleepIfAccepted(bundle, failed, detail) ==
  /\ contacts' = bundle
  /\ detail_log' = Append(detail_log,
       [idx |-> idx, url |-> url_abs, failed |-> failed, detail |-> detail,
        contacts |-> bundle])
  /\ IF HasContacts(bundle)
     THEN /\ properties' = Append(properties,
               ListingRecord(articles[idx], url_abs, prop_id, bundle, clock))
          /\ accepted' = Append(accepted, idx)
          /\ pc' = "sleep"
          /\ UNCHANGED idx
     ELSE /\ pc' = "loop"
          /\ idx' = idx + 1
          /\ UNCHANGED <<properties, accepted>>
  /\ UNCHANGED <<CIUDADES_ESPANA, request, city, base_url, page, max_properties,
                 search_log, articles, url_abs, prop_id, events, clock, response>>
  /\ UNCHANGED exVars

\* lines 179-192 for a bundle returned by scrape_property_detail
TakeContacts(bundle, failed, detail) ==
  /\ contacts' = bundle
  /\ detail_log' = Append(detail_log,
       [idx |-> idx, url |-> url_abs, failed |-> failed, detail |-> detail,
        contacts |-> bundle])
  /\ IF HasContacts(bundle)
     THEN /\ properties' = Append(properties,
               ListingRecord(articles[idx], url_abs, prop_id, bundle, clock))
          /\ accepted' = Append(accepted, idx)
     ELSE UNCHANGED <<properties, accepted>>
  /\ pc' = "sleep"
  /\ UNCHANGED <<CIUDADES_ESPANA, request, city, base_url, page, max_properties,
                 search_log, articles, idx, url_abs, prop_id, events, clock,
                 response>>
  /\ UNCHANGED exVars

\* scrape_property_detail, lines 98-125: the page arrives and is searched
DetailOk(detail, bundle) ==
  /\ pc = "detail"
  /\ bundle \in DetailResults(detail)
  /\ TakeContacts(bundle, FALSE, detail)

\* variant of DetailFail: the exception leaves scrape_property_detail and
\* reaches the except of get_contacts
DetailFailPropagates ==
  /\ pc = "detail"
  /\ detail_log' = Append(detail_log,
       [idx |-> idx, url |-> url_abs, failed |-> TRUE, detail |-> NoDetail,
        contacts |-> EmptyContacts])
  /\ response' = ErrorEnvelope("URLError", clock)
  /\ pc' = "done"
  /\ UNCHANGED <<CIUDADES_ESPANA, request, city, base_url, page, max_properties,
                 search_log, articles, idx, url_abs, prop_id, contacts, properties,
                 accepted, events, clock>>
  /\ UNCHANGED exVars

\* scrape_property_detail, lines 127-129: the request or the read raised
DetailFail ==
  /\ pc = "detail"
  /\ TakeContacts(EmptyContacts, TRUE, NoDetail)

\* line 195: time.sleep(2), then the next article
Sleep ==
  /\ pc = "sleep"
  /\ clock' = clock + SleepSeconds
  /\ events' = Append(events, <<"sleep", idx>>)
  /\ idx' = idx + 1
  /\ pc' = "loop"
  /\ UNCHANGED <<CIUDADES_ESPANA, request, city, base_url, page, max_properties,
                 search_log, articles, url_abs, prop_id, contacts, properties,
                 accepted, detail_log, response>>
  /\ UNCHANGED exVars

Next ==
  \/ \E req \in Requests : GetContacts(req)
  \/ \E found \in SearchPages : SearchOk(found)
  \/ SearchFail
  \/ LoopExit
  \/ AgencySkip
  \/ NoUrlSkip
  \/ StartDetail
  \/ \E detail \in DetailPages : \E bundle \in DetailResults(detail) : DetailOk(detail, bundle)
  \/ DetailFail
  \/ Sleep

Spec == Init /\ [][Next]_vars

\* ------------------------------------------------------------------------
\* extract_phone_from_text on its own: a nine-digit number written out in a
\* text, with something before it and something after it
\* ------------------------------------------------------------------------

MaxSepLen == 2

\* what separates the 3-2-2-2 groups of the number: whitespace of up to
\* MaxSepLen characters (none: written contiguously), a hyphen or a period
GroupSeparators ==
  UNION {[1..n -> {" ", "\t"}] : n \in 0..MaxSepLen} \cup {<<"-">>, <<".">>}

NineDigitNumbers ==
  { <<"6", "1", "2", "3", "4", "5", "6", "7", "8">>,
    <<"9", "1", "2", "3", "4", "5", "6", "7", "8">>,
    <<"5", "1", "2", "3", "4", "5", "6", "7", "8">> }

Leads ==
  { <<>>,
    <<"T", "e", "l", " ">>,
    <<"+", "3", "4">>,
    <<"+", "3", "4", " ">>,
    <<"0", "0", "3", "4">> }

Trails ==
  { <<>>,
    <<" ", "y", " ", "6", "9", "8", "7", "6", "5", "4", "3", "2">>,
    <<".">> }

ExtractInputs ==
  [lead : Leads, digits : NineDigitNumbers, sep : GroupSeparators, trail : Trails]

\* the number in 3-2-2-2 groups
WrittenNumber(digits, sep) ==
  SubSeq(digits, 1, 3) \o sep \o SubSeq(digits, 4, 5) \o sep
    \o SubSeq(digits, 6, 7) \o sep \o SubSeq(digits, 8, 9)

\* the text handed to extract_phone_from_text
InputText(input) ==
  input.lead \o WrittenNumber(input.digits, input.sep) \o input.trail

InitExtract ==
  /\ ApiInit
  /\ pc = "off"
  /\ ex_pc = "input"
  /\ ex_input \in ExtractInputs
  /\ ex_phones = <<>>

\* a call of extract_phone_from_text(text)
ExtractPhones ==
  /\ ex_pc = "input"
  /\ ex_phones' = extract_phone_from_text(InputText(ex_input))
  /\ ex_pc' = "done"
  /\ UNCHANGED <<CIUDADES_ESPANA, pc, request, city, base_url, page, max_properties,
                 search_log, articles, idx, url_abs, prop_id, contacts, properties,
                 accepted, detail_log, events, clock, response, ex_input>>

NextExtract == ExtractPhones

SpecExtract == InitExtract /\ [][NextExtract]_vars

\* ------------------------------------------------------------------------
\* Properties
\* ------------------------------------------------------------------------

Max0(n) == IF n > 0 THEN n ELSE 0

SearchFailed == \E k \in 1..Len(search_log) : ~search_log[k].ok

NonEmptyBundle(b) == Len(b.phones) > 0 \/ Len(b.emails) > 0

\* the text of the inspected subtitle/extra-info element (the first one of the
\* article in document order) contains "agencia" or "inmobiliaria" in any case
AgencyLabelled(article) ==
  /\ Len(article.extras) > 0
  /\ \E i \in 1..Len(article.extras[1]) :
       \/ StartsWithAt(Lower(article.extras[1]), i, Agencia)
       \/ StartsWithAt(Lower(article.extras[1]), i, Inmobiliaria)

\* the article has a link whose href is not empty
HasLinkHref(article) ==
  article.has_link /\ article.has_href /\ Len(article.href) > 0

FetchedPositions == {detail_log[k].idx : k \in 1..Len(detail_log)}

DetailEntryOf(i) == detail_log[CHOOSE k \in 1..Len(detail_log) : detail_log[k].idx = i]

CountEvents(kind) == Cardinality({k \in 1..Len(events) : events[k][1] = kind})

\* C1 as stated: for every integer max_properties the list returned by
\* scrape_idealista_contacts is no longer than max_properties.
C1_LengthAtMostLimit ==
  (pc = "done" /\ response.success) => Len(response.data) <= max_properties

\* C1 as amended: the result list, while it is built and when it is returned,
\* is no longer than max_properties when that is positive and is empty when
\* max_properties is zero or negative.
C1_LengthAtMostLimitOrZero ==
  /\ Len(properties) <= Max0(max_properties)
  /\ Len(response.data) <= Max0(max_properties)

C1_Witness ==
  /\ pc = "done"
  /\ response.success
  /\ max_properties >= 1
  /\ Len(response.data) = max_properties
  /\ idx <= Len(articles)

\* C2: every record of the result list has a phone or an email, and an article
\* whose detail call returned an empty bundle (a failed fetch included) has
\* no record.
C2_RecordsHaveContacts ==
  /\ \A k \in 1..Len(properties) :
       Len(properties[k].telefonos) > 0 \/ Len(properties[k].emails) > 0
  /\ \A k \in 1..Len(response.data) :
       Len(response.data[k].telefonos) > 0 \/ Len(response.data[k].emails) > 0
  /\ \A k \in 1..Len(detail_log) :
       (detail_log[k].contacts.phones = <<>> /\ detail_log[k].contacts.emails = <<>>)
         => ~InSeq(detail_log[k].idx, accepted)
  /\ \A k \in 1..Len(detail_log) :
       detail_log[k].failed => ~InSeq(detail_log[k].idx, accepted)

\* one article gave a record, another was fetched and gave an empty bundle
C2_Witness ==
  /\ pc = "done"
  /\ Len(response.data) >= 1
  /\ \E k \in 1..Len(detail_log) :
       /\ ~NonEmptyBundle(detail_log[k].contacts)
       /\ ~InSeq(detail_log[k].idx, accepted)

C4_SearchFailureFailsRequest ==
  SearchFailed =>
    /\ pc = "done"
    /\ ~response.success
    /\ response.status = 500
    /\ response.data = <<>>
    /\ response.count = 0
    /\ detail_log = <<>>
    /\ ~\E k \in 1..Len(events) : events[k][1] = "detail"

C4_Witness ==
  /\ pc = "done"
  /\ SearchFailed
  /\ response.status = 500

\* C5: a failed detail fetch gives the empty bundle, the loop goes on with the
\* next article of the page, and the request ends with the success envelope
\* holding the records of the other articles.
C5_DetailFailureAbsorbed ==
  \A k \in 1..Len(detail_log) :
    detail_log[k].failed =>
      /\ detail_log[k].contacts = [phones |-> <<>>, emails |-> <<>>]
      /\ pc \in {"sleep", "loop", "detail", "done"}
      /\ pc = "done" =>
           /\ response.success
           /\ response.status = 200
           /\ response.data = properties
           /\ \A j \in 1..Len(detail_log) :
                NonEmptyBundle(detail_log[j].contacts) =>
                  \E r \in 1..Len(response.data) :
                    /\ accepted[r] = detail_log[j].idx
                    /\ response.data[r].url = detail_log[j].url
                    /\ response.data[r].telefonos = detail_log[j].contacts.phones
                    /\ response.data[r].emails = detail_log[j].contacts.emails
           /\ detail_log[k].idx < Len(articles) =>
                \E e \in 1..Len(events) : events[e][2] = detail_log[k].idx + 1

\* a detail fetch failed, and a later article of the same page gave a record
C5_Witness ==
  /\ pc = "done"
  /\ response.success
  /\ \E k \in 1..Len(detail_log) : \E r \in 1..Len(accepted) :
       detail_log[k].failed /\ accepted[r] > detail_log[k].idx

\* C6: a mobile number (nine digits, the first one 6, 7, 8 or 9) written
\* contiguously or in 3-2-2-2 groups separated by whitespace, without country
\* prefix, is returned by extract_phone_from_text as "+34" and its nine digits.
C6_MobileReturnedWithPlus34 ==
  ( /\ ex_pc = "done"
    /\ ex_input.digits[1] \in {"6", "7", "8", "9"}
    /\ \A k \in 1..Len(ex_input.sep) : ex_input.sep[k] \in Whitespace
    /\ ex_input.lead \in {<<>>, <<"T", "e", "l", " ">>} )
  => InSeq(<<"+", "3", "4">> \o ex_input.digits, ex_phones)

\* C7: the telefonos of every record have no duplicate and are in the order
\* in which the phones are first met in the text of the detail page.
C7_PhonesInFirstSeenOrder ==
  \A r \in 1..Len(properties) :
    /\ \A a, b \in 1..Len(properties[r].telefonos) :
         a # b => properties[r].telefonos[a] # properties[r].telefonos[b]
    /\ properties[r].telefonos =
         OrderedDedup(extract_phone_from_text(page_text_of(DetailEntryOf(accepted[r]).detail)))

\* C8: the base URL handed to the Listing Fetcher is the table's entry for the
\* lower-cased city, or madrid's when there is none; the table never changes;
\* a request fails only on a non-integer parameter or a failed search fetch.
C8_CityLookupNeverFails ==
  /\ CIUDADES_ESPANA = InitialCities
  /\ pc \in {"search", "loop", "detail", "sleep", "done"} =>
       /\ Lower(request.city) \in DOMAIN InitialCities
            => base_url = InitialCities[Lower(request.city)]
       /\ Lower(request.city) \notin DOMAIN InitialCities
            => base_url = InitialCities[<<"m", "a", "d", "r", "i", "d">>]
       /\ \A k \in 1..Len(search_log) :
            search_log[k].url = build_search_url(base_url, page)
  /\ (pc = "done" /\ ~response.success) =>
       \/ IntFails(request.page_arg)
       \/ IntFails(request.limit_arg)
       \/ SearchFailed

\* a city that is not in the table, served from madrid's URL
C8_Witness ==
  /\ pc = "done"
  /\ response.success
  /\ Lower(request.city) \notin DOMAIN CIUDADES_ESPANA
  /\ Len(search_log) = 1
  /\ base_url = CIUDADES_ESPANA[Madrid]

\* C9: at the end of a successful run the records are, in page order, those of
\* the articles that were detail-fetched with a non-empty bundle; an article is
\* detail-fetched exactly when it is not agency-labelled, has a link href and
\* fewer than max_properties records came from the articles before it; one
\* search page was requested.
C9_FirstQualifyingUpToLimit ==
  (pc = "done" /\ response.success) =>
    /\ Len(search_log) = 1
    /\ search_log[1].url = build_search_url(base_url, page)
    /\ response.data = properties
    /\ Len(accepted) = Len(properties)
    /\ \A a, b \in 1..Len(accepted) : a < b => accepted[a] < accepted[b]
    /\ \A a, b \in 1..Len(detail_log) : a < b => detail_log[a].idx < detail_log[b].idx
    /\ FetchedPositions \subseteq 1..Len(articles)
    /\ \A i \in 1..Len(articles) :
         i \in FetchedPositions <=>
           /\ ~AgencyLabelled(articles[i])
           /\ HasLinkHref(articles[i])
           /\ Cardinality({r \in 1..Len(accepted) : accepted[r] < i}) < max_properties
    /\ \A i \in FetchedPositions :
         InSeq(i, accepted) <=> NonEmptyBundle(DetailEntryOf(i).contacts)
    /\ \A r \in 1..Len(accepted) :
         /\ response.data[r].titulo = articles[accepted[r]].titulo
         /\ response.data[r].url = DetailEntryOf(accepted[r]).url
         /\ response.data[r].telefonos = DetailEntryOf(accepted[r]).contacts.phones
         /\ response.data[r].emails = DetailEntryOf(accepted[r]).contacts.emails

\* the limit is filled by the second article after the first one was fetched
\* without contacts
C9_Witness ==
  /\ pc = "done"
  /\ response.success
  /\ Len(accepted) = max_properties
  /\ \E i \in FetchedPositions : \E r \in 1..Len(accepted) :
       i < accepted[r] /\ ~InSeq(i, accepted)

\* C10: every detail request is followed by one 2-second sleep before anything
\* else happens, accepted or not; a sleep only follows a detail request; an
\* article skipped as agency or for lack of a URL has neither.
C10_SleepAfterEveryDetail ==
  /\ \A k \in 1..Len(events) :
       events[k][1] = "detail" =>
         IF k < Len(events) THEN events[k + 1] = <<"sleep", events[k][2]>>
         ELSE pc \in {"detail", "sleep"}
  /\ \A k \in 1..Len(events) :
       events[k][1] = "sleep" => (k > 1 /\ events[k - 1] = <<"detail", events[k][2]>>)
  /\ \A k \in 1..Len(events) :
       events[k][1] \in {"skip_agency", "skip_no_url"} =>
         /\ ~InSeq(<<"detail", events[k][2]>>, events)
         /\ ~InSeq(<<"sleep", events[k][2]>>, events)
  /\ clock = 2 * CountEvents("sleep")
  /\ pc \in {"loop", "done"} =>
       /\ CountEvents("sleep") = Len(detail_log)
       /\ CountEvents("detail") = Len(detail_log)

\* two detail requests with their sleeps, the first for an article that gave
\* no record
C10_Witness ==
  /\ pc = "done"
  /\ Len(detail_log) = 2
  /\ CountEvents("sleep") = 2
  /\ ~InSeq(detail_log[1].idx, accepted)
  /\ InSeq(detail_log[2].idx, accepted)

====
